---- MODULE Spec2Model ----
(***************************************************************************)
(* The correlation relay of textgenhub's ChatGPT extension CLI             *)
(* (src/src/textgenhub/chatgpt_extension_cli/cli/server.py).               *)
(*                                                                         *)
(* One asyncio task runs handler(websocket) per connection.  All tasks     *)
(* share extension_ws, pending_requests and client_ws_list and interleave  *)
(* only where the code awaits: reading the next frame, a send, or the      *)
(* 0.1s sleep of a wait loop.  Every action below is the code between two  *)
(* such suspension points.  A send writes the frame and then suspends, so  *)
(* a send is the last thing an action does.                                *)
(***************************************************************************)
EXTENDS Integers, FiniteSets, Sequences, TLC

\* ---- bounds of the model ----
NumConns == 3
MaxId == 1
MaxTime == 310
MaxEvents == 4
MaxReqs == 2
ClientCeiling == 1
\* clock readings per second of the tab manager's calls
Resolution == 2
\* pages in one debug_tabs response
MaxTabs == 2
\* keywords in one error message
MaxKeywords == 3
\* largest max_attempts of a RetryStrategy
MaxAttempts == 3
\* send_prompt calls on one ChatGPTSession
MaxPrompts == 2
\* lines the subprocess writes to its stdout
MaxLines == 3

\* ---- constants of the program ----
timeout == 300
heartbeat_interval == 10
focus_tab_timeout == 30
debug_tabs_timeout == 10

None == 0
Conns == 1..NumConns
MsgIds == 1..MaxId
\* the instants at which the clock is read: they put a wait loop exactly on
\* the heartbeat interval and the timeouts, and just past them
Instants == {10, 40, 310}

\* request_type values a cli_request can carry; "other" is any unsupported one
RequestTypes == {"inject", "focus_tab", "debug_tabs", "other"}

\* Payload fields of a `response` envelope; "Absent" = key not in the JSON.
NoBody == [response |-> "Absent", html |-> "Absent", success |-> "Absent",
           error |-> "Absent", tabs |-> "Absent", tab_count |-> "Absent"]
\* The executor's envelope either omits every payload field or carries them all.
ExecData == { NoBody,
              [response |-> "pong", html |-> "<p>pong</p>", success |-> "True",
               error |-> "None", tabs |-> "[tab]", tab_count |-> "1"] }

VARIABLES
  conn,             \* transport state of each connection: new / open / closed
  pc,               \* where each handler task is suspended
  is_extension,     \* handler local
  msg_type,         \* handler local: type of the envelope being handled
  request_type,     \* handler local
  message_id,       \* handler local
  start_time,       \* handler local
  last_heartbeat,   \* handler local
  extension_ws,     \* global: the registered executor connection or None
  pending_requests, \* global: messageId -> entry
  client_ws_list,   \* global: never appended to by the code
  now,              \* time.time()
  nevents,          \* events so far: frames received, connections closed, clock readings
  nreqs,            \* request frames received so far
  recvd,            \* the frame read by the last step (NoFrame if none)
  sent,             \* the envelope written by the last step (NoMsg if none)
  rqKind,           \* history: request_type the handler's current request came with
  nTerminal,        \* history: terminal envelopes sent so far for the current request
  lastReg,          \* history: connection that sent the latest extension_register
  overCeiling,      \* history: connection opened with >= ClientCeiling clients open
  vanished,         \* history: handler whose wait loop last found its entry gone
  cli,              \* chatgpt_cli.py: the command-line driver's main()
  drv,              \* chatgpt_tab_manager.py: the send_focus_request / debug_tabs call in progress
  ens,              \* chatgpt_tab_manager.py: ensure_chatgpt_tab_focused
  eh,               \* error_handler.py: an error being categorized and retried
  ses               \* chatgpt.py: a ChatGPTSession, its subprocess and its reader thread

locals == <<msg_type, request_type, message_id, start_time, last_heartbeat>>
globals == <<extension_ws, pending_requests, client_ws_list>>
history == <<rqKind, nTerminal, lastReg, overCeiling, vanished>>
relay == <<conn, pc, is_extension, locals, globals, now, nevents, nreqs, recvd, sent, history>>
\* the programs that are not part of the relay process
clients == <<cli, drv, ens, eh, ses>>
vars == <<relay, clients>>

NoMsg == [to |-> None, type |-> "none", id |-> None, info |-> "none",
          body |-> NoBody, by |-> None]

\* no frame was read by the last step
NoFrame == [from |-> None, type |-> "none", id |-> None]
Frame(c, type, m) == [from |-> c, type |-> type, id |-> m]

\* send_message(ws, msg_type, message_id, **kwargs): the envelope written to
\* ws; info is its status or error_type, by is the handler that wrote it
Envelope(to, type, id, info, by) ==
  [to |-> to, type |-> type, id |-> id, info |-> info, body |-> NoBody, by |-> by]

\* ws.send raises ConnectionClosed on a connection that is not open
CanSend(ws) == ws # None /\ conn[ws] = "open"

\* chatgpt_cli.py before main() has returned (ws: its connection, got: the
\* frame read at line 26, out: what main() printed as its result)
CliIdle == [pc |-> "idle", ws |-> None, got |-> NoMsg, out |-> "none"]

\* a frame as send_focus_request and debug_tabs look at it: type, whether its
\* messageId is the call's own, success ("Absent" if the field is missing) and
\* tabs (the default [] of data.get if the field is missing)
DrvFrame(type, mine, success, tabs) ==
  [type |-> type, mine |-> mine, success |-> success, tabs |-> tabs]
NoDrvFrame == DrvFrame("none", FALSE, "Absent", {})

\* no send_focus_request or debug_tabs call in progress (clock: time since
\* start_time, recvAt: clock when the pending recv began, ok / tabs: the value
\* returned; history: how the call returned, first and last frame read)
DrvIdle ==
  [fn |-> "none", pc |-> "idle", clock |-> 0, recvAt |-> 0, ok |-> FALSE, tabs |-> {},
   how |-> "none", first |-> "none", last |-> NoDrvFrame]

\* ensure_chatgpt_tab_focused not called (history: tabs returned by discovery,
\* numbers of debug_tabs calls, focus_tab requests and pages opened)
EnsIdle ==
  [pc |-> "idle", tabs |-> {}, nDiscover |-> 0, nFocus |-> 0, nOpen |-> 0, result |-> "none"]

\* no error being handled (message: the keywords the lower-cased message
\* contains, guidance: the keys of what get_error_message returned)
EhIdle ==
  [pc |-> "idle", message |-> {}, error_type |-> "none", guidance |-> {},
   attempt_count |-> 0, max_attempts |-> 0]

\* no line (text: what kind of line it is, n: its serial number in the
\* subprocess's output, after: prompts written to stdin when it was produced)
NoLine == [text |-> "none", n |-> 0, after |-> 0]

\* chatgpt.py lines 50-54: a ChatGPTSession not started (stdin: prompts written
\* so far, pipe: lines the subprocess has written and the reader thread has not
\* read, elapsed: time.time() - start_time of the call in progress; history:
\* produced = lines the subprocess has written, result = line the last call
\* returned, returned = serial numbers of all lines returned)
SesIdle ==
  [pc |-> "new", stdin |-> 0, pipe |-> <<>>, stdout_lines |-> <<>>, elapsed |-> 0,
   produced |-> 0, result |-> NoLine, returned |-> <<>>]

\* no client program has been started
NoClients ==
  /\ cli = CliIdle
  /\ drv = DrvIdle
  /\ ens = EnsIdle
  /\ eh = EhIdle
  /\ ses = SesIdle

RelayInit ==
  /\ conn = [c \in Conns |-> "new"]
  /\ pc = [c \in Conns |-> "idle"]
  /\ is_extension = [c \in Conns |-> FALSE]
  /\ msg_type = [c \in Conns |-> "none"]
  /\ request_type = [c \in Conns |-> "none"]
  /\ message_id = [c \in Conns |-> None]
  /\ start_time = [c \in Conns |-> 0]
  /\ last_heartbeat = [c \in Conns |-> 0]
  /\ extension_ws = None
  /\ pending_requests = << >>
  /\ client_ws_list = << >>
  /\ now = 0
  /\ nevents = 0
  /\ nreqs = 0
  /\ recvd = NoFrame
  /\ sent = NoMsg
  /\ rqKind = [c \in Conns |-> "none"]
  /\ nTerminal = [c \in Conns |-> 0]
  /\ lastReg = None
  /\ overCeiling = [c \in Conns |-> FALSE]
  /\ vanished = None

Init == RelayInit /\ NoClients


\* ---- helpers ----

\* dict assignment and del on pending_requests
Put(table, m, e) == [k \in DOMAIN table \cup {m} |-> IF k = m THEN e ELSE table[k]]
Delete(table, m) == [k \in DOMAIN table \ {m} |-> table[k]]

\* data.get(key, default)
Get(data, key, default) == IF data[key] = "Absent" THEN default ELSE data[key]

\* str(uuid.uuid4()): an id no envelope has carried before
Uuid == MaxId + nevents + 1

\* message_id = data.get("messageId") or str(uuid.uuid4())   (None = field omitted)
MessageId(mid) == IF mid # None THEN mid ELSE Uuid

\* the entry a request creates (lines 92-101, 207-214, 256-263); the fields
\* message, output_format, start_time and received_at are written and never read
\* (history: answered = the owner has been sent the terminal envelope, got =
\* the payload of the last response envelope read for the id)
NewEntry(type, ws) ==
  [type |-> type, client_ws |-> ws, response |-> "None", html |-> "None",
   success |-> "None", error |-> "None", tabs |-> "None", tab_count |-> "None",
   answered |-> FALSE, got |-> NoBody]

\* lines 62-76: the fields a `response` envelope sets, chosen by the stored type
Stored(e, data) ==
  IF e.type = "focus_tab"
    THEN [e EXCEPT !.success = Get(data, "success", "False"),
                   !.error = Get(data, "error", "None"),
                   !.got = data]
  ELSE IF e.type = "debug_tabs"
    THEN [e EXCEPT !.tabs = Get(data, "tabs", "[]"),
                   !.tab_count = Get(data, "tab_count", "0"),
                   !.got = data]
  ELSE [e EXCEPT !.response = Get(data, "response", "None"),
                 !.html = Get(data, "html", ""),
                 !.got = data]

\* a response for an id that is not pending creates the entry
StoreResponse_Create(m, data) ==
  IF m \in DOMAIN pending_requests
    THEN [pending_requests EXCEPT ![m] = Stored(@, data)]
    ELSE Put(pending_requests, m, Stored(NewEntry("inject", 1), data))

\* lines 61-79: store the response if the id is pending, else only log
StoreResponse(m, data) ==
  IF m \in DOMAIN pending_requests
    THEN [pending_requests EXCEPT ![m] = Stored(@, data)]
    ELSE pending_requests

\* lines 168-189 (and 293): has the awaited result been stored in the entry
Ready(e) ==
  IF e.type = "focus_tab" THEN e.success # "None"
  ELSE IF e.type = "debug_tabs" THEN e.tabs # "None"
  ELSE e.response # "None"

\* lines 172, 179, 187: payload of the terminal `response` envelope
ResponseBody(e) ==
  IF e.type = "focus_tab"
    THEN [NoBody EXCEPT !.success = e.success, !.error = e.error]
  ELSE IF e.type = "debug_tabs"
    THEN [NoBody EXCEPT !.tabs = e.tabs, !.tab_count = e.tab_count]
  ELSE [NoBody EXCEPT !.response = e.response, !.html = e.html]

\* the check of line 84 left out
NoExecutor_Unchecked == FALSE

\* line 84: `if not extension_ws`
NoExecutor == extension_ws = None

\* a registration that does not replace an executor already registered
NewExtension_KeepFirst(c) == IF extension_ws # None THEN extension_ws ELSE c

\* line 52: extension_ws = websocket
NewExtension(c) == c

\* lines 115, 125, 228, 277: error_type of a failed forward
ForwardFailedType(c) ==
  IF msg_type[c] = "focus_tab" THEN "focus_failed"
  ELSE IF msg_type[c] = "debug_tabs" THEN "debug_failed"
  ELSE IF request_type[c] = "inject" THEN "injection_failed"
  ELSE IF request_type[c] = "focus_tab" THEN "focus_tab_failed"
  ELSE "debug_tabs_failed"

\* the cli_request loop with the short timeouts of the direct envelopes
LoopTimeout_ByKind(c) ==
  IF msg_type[c] = "focus_tab" \/ request_type[c] = "focus_tab" THEN focus_tab_timeout
  ELSE IF msg_type[c] = "debug_tabs" \/ request_type[c] = "debug_tabs" THEN debug_tabs_timeout
  ELSE timeout

\* lines 135, 232, 281: the timeout of the wait loop the handler is in
LoopTimeout(c) ==
  IF msg_type[c] = "focus_tab" THEN focus_tab_timeout
  ELSE IF msg_type[c] = "debug_tabs" THEN debug_tabs_timeout
  ELSE timeout

\* lines 154, 240, 289: error_type of the loop's timeout error
TimeoutType(c) ==
  IF msg_type[c] = "focus_tab" THEN "focus_timeout"
  ELSE IF msg_type[c] = "debug_tabs" THEN "debug_timeout"
  ELSE "response_timeout"

\* client_ws_list.remove(websocket)
ListRemove(list, ws) == SelectSeq(list, LAMBDA w : w # ws)

\* ---- fragments shared by the actions ----

SetLocals(c, mt, rt, m, st, hb) ==
  /\ msg_type' = [msg_type EXCEPT ![c] = mt]
  /\ request_type' = [request_type EXCEPT ![c] = rt]
  /\ message_id' = [message_id EXCEPT ![c] = m]
  /\ start_time' = [start_time EXCEPT ![c] = st]
  /\ last_heartbeat' = [last_heartbeat EXCEPT ![c] = hb]

\* the handler's locals are dead once it is back at `async for`
ClearLocals(c) == SetLocals(c, "none", "none", None, 0, 0)

\* a finally block that leaves the registration slot alone
RunFinally_KeepSlot(c) ==
  /\ pc' = [pc EXCEPT ![c] = "done"]
  /\ extension_ws' = extension_ws
  /\ client_ws_list' = IF is_extension[c] THEN client_ws_list
                       ELSE ListRemove(client_ws_list, c)

\* lines 312-320: the finally block, run when the handler task ends
RunFinally(c) ==
  /\ pc' = [pc EXCEPT ![c] = "done"]
  /\ extension_ws' = IF is_extension[c] THEN None ELSE extension_ws
  /\ client_ws_list' = IF is_extension[c] THEN client_ws_list
                       ELSE ListRemove(client_ws_list, c)

\* `continue` / `break`: back to reading the next frame
NextFrame(c) ==
  /\ pc' = [pc EXCEPT ![c] = "recv"]
  /\ UNCHANGED <<extension_ws, client_ws_list>>

\* history: the handler's request is over
Over(c) ==
  /\ rqKind' = [rqKind EXCEPT ![c] = "none"]
  /\ nTerminal' = [nTerminal EXCEPT ![c] = 0]
  /\ UNCHANGED <<lastReg, overCeiling, vanished, clients>>

\* history: the handler's request goes on
Ongoing(c, terminals) ==
  /\ nTerminal' = [nTerminal EXCEPT ![c] = @ + terminals]
  /\ UNCHANGED <<rqKind, lastReg, overCeiling, vanished, clients>>

\* history: handler c has written env; mark the entry env answers
Answered(table, c, env) ==
  IF env.type \in {"response", "error"} /\ env.id \in DOMAIN table
       /\ table[env.id].client_ws = c
    THEN [table EXCEPT ![env.id].answered = TRUE]
    ELSE table

\* ---- connections ----

OpenClients == {d \in Conns : conn[d] = "open" /\ ~is_extension[d]}

\* websockets.serve starts handler(websocket) for a new connection (line 324);
\* the handler admits it unconditionally (lines 34-42).  Connections are
\* numbered in the order they are opened, and they are opened before the first
\* event: a handler that has read no frame has changed nothing, so a connection
\* opened later is indistinguishable from one that is open and idle.
Connect(c) ==
  /\ conn[c] = "new"
  /\ \A d \in Conns : d < c => conn[d] # "new"
  /\ nevents = 0
  /\ conn' = [conn EXCEPT ![c] = "open"]
  /\ pc' = [pc EXCEPT ![c] = "recv"]
  /\ overCeiling' = [overCeiling EXCEPT ![c] = Cardinality(OpenClients) >= ClientCeiling]
  /\ recvd' = NoFrame
  /\ sent' = NoMsg
  /\ UNCHANGED <<nreqs, is_extension, locals, globals, now, nevents, rqKind,
                 nTerminal, lastReg, vanished, clients>>

\* the peer closes its end
Close(c) ==
  /\ conn[c] = "open"
  /\ nevents < MaxEvents
  /\ nevents' = nevents + 1
  /\ conn' = [conn EXCEPT ![c] = "closed"]
  /\ recvd' = NoFrame
  /\ sent' = NoMsg
  /\ UNCHANGED <<nreqs, pc, is_extension, locals, globals, now, history, clients>>

\* lines 42, 312-320: `async for` ends on a closed connection
EndOfStream(c) ==
  /\ pc[c] = "recv"
  /\ conn[c] = "closed"
  /\ RunFinally(c)
  /\ recvd' = NoFrame
  /\ sent' = NoMsg
  /\ UNCHANGED <<nreqs, conn, is_extension, locals, pending_requests, now, nevents, history, clients>>

\* time.time() advances; the clock is read only by handlers in a wait loop
\* (lines 137-138, 149, 159, 161, 233, 237, 282, 286)
Tick(t) ==
  /\ \E c \in Conns : pc[c] \in {"wait", "check"}
  /\ now < t
  /\ t <= MaxTime
  /\ nevents < MaxEvents
  /\ nevents' = nevents + 1
  /\ now' = t
  /\ recvd' = NoFrame
  /\ sent' = NoMsg
  /\ UNCHANGED <<nreqs, conn, pc, is_extension, locals, globals, history, clients>>

\* ---- line 42: the next frame is read and dispatched on its type ----

RecvReady(c) ==
  /\ conn[c] = "open"
  /\ pc[c] = "recv"
  /\ nevents < MaxEvents

\* a registration that answers and then stops reading from the connection
Register_Once(c) ==
  /\ RecvReady(c)
  /\ recvd' = Frame(c, "extension_register", Uuid)
  /\ nevents' = nevents + 1
  /\ extension_ws' = NewExtension(c)
  /\ is_extension' = [is_extension EXCEPT ![c] = TRUE]
  /\ sent' = Envelope(c, "ack", Uuid, "extension_registered", c)
  /\ lastReg' = c
  /\ pc' = [pc EXCEPT ![c] = "done"]
  /\ UNCHANGED <<nreqs, conn, locals, pending_requests, client_ws_list, now,
                 rqKind, nTerminal, overCeiling, vanished, clients>>

\* lines 49-56
Register(c) ==
  /\ RecvReady(c)
  /\ recvd' = Frame(c, "extension_register", Uuid)
  /\ nevents' = nevents + 1
  /\ extension_ws' = NewExtension(c)
  /\ is_extension' = [is_extension EXCEPT ![c] = TRUE]
  /\ sent' = Envelope(c, "ack", Uuid, "extension_registered", c)
  /\ lastReg' = c
  /\ UNCHANGED <<nreqs, conn, pc, locals, pending_requests, client_ws_list, now,
                 rqKind, nTerminal, overCeiling, vanished, clients>>

\* a response branch that also writes the response envelope to the owner
Response_Deliver(c, mid, data) ==
  /\ RecvReady(c)
  /\ recvd' = Frame(c, "response", MessageId(mid))
  /\ nevents' = nevents + 1
  /\ pending_requests' = StoreResponse(MessageId(mid), data)
  /\ sent' = IF MessageId(mid) \in DOMAIN pending_requests
              THEN Envelope(pending_requests[MessageId(mid)].client_ws, "response",
                            MessageId(mid), "none", c)
              ELSE NoMsg
  /\ UNCHANGED <<nreqs, conn, pc, is_extension, locals, extension_ws, client_ws_list,
                 now, history, clients>>

\* lines 58-79 (a response without messageId gets a fresh id at line 45 and is
\* dropped like one with an id that is not pending)
Response(c, mid, data) ==
  /\ RecvReady(c)
  /\ recvd' = Frame(c, "response", MessageId(mid))
  /\ nevents' = nevents + 1
  /\ pending_requests' = StoreResponse(MessageId(mid), data)
  /\ sent' = NoMsg
  /\ UNCHANGED <<nreqs, conn, pc, is_extension, locals, extension_ws, client_ws_list,
                 now, history, clients>>

\* lines 84-88: no executor registered
Reject(c, m) ==
  /\ sent' = Envelope(c, "error", m, "extension_not_connected", c)
  /\ UNCHANGED <<conn, pc, is_extension, locals, globals, now, history, clients>>

\* a request accepted and forwarded without the ack
Accept_NoAck(c, mt, rt, m) ==
  /\ pending_requests' = Put(pending_requests, m, NewEntry(rt, c))
  /\ sent' = NoMsg
  /\ pc' = [pc EXCEPT ![c] = "forward"]
  /\ SetLocals(c, mt, rt, m, 0, 0)
  /\ rqKind' = [rqKind EXCEPT ![c] = rt]
  /\ nTerminal' = [nTerminal EXCEPT ![c] = 0]
  /\ UNCHANGED <<conn, is_extension, extension_ws, client_ws_list, now,
                 lastReg, overCeiling, vanished, clients>>

\* lines 90-105, 206-218, 255-267: create the entry, send the ack
Accept(c, mt, rt, m) ==
  /\ pending_requests' = Put(pending_requests, m, NewEntry(rt, c))
  /\ sent' = Envelope(c, "ack", m, "request_received", c)
  /\ pc' = [pc EXCEPT ![c] = "forward"]
  /\ SetLocals(c, mt, rt, m, 0, 0)
  /\ rqKind' = [rqKind EXCEPT ![c] = rt]
  /\ nTerminal' = [nTerminal EXCEPT ![c] = 0]
  /\ UNCHANGED <<conn, is_extension, extension_ws, client_ws_list, now,
                 lastReg, overCeiling, vanished, clients>>

\* lines 81-105
CliRequest(c, mid, rt) ==
  /\ RecvReady(c)
  /\ recvd' = Frame(c, "cli_request", MessageId(mid))
  /\ nreqs < MaxReqs
  /\ nevents' = nevents + 1
  /\ nreqs' = nreqs + 1
  /\ IF NoExecutor
       THEN Reject(c, MessageId(mid))
       ELSE Accept(c, "cli_request", rt, MessageId(mid))

\* lines 198-218 and 247-267: a `focus_tab` or `debug_tabs` envelope
DirectRequest(c, mid, kind) ==
  /\ RecvReady(c)
  /\ recvd' = Frame(c, kind, MessageId(mid))
  /\ nreqs < MaxReqs
  /\ nevents' = nevents + 1
  /\ nreqs' = nreqs + 1
  /\ IF extension_ws = None
       THEN Reject(c, MessageId(mid))
       ELSE Accept(c, kind, kind, MessageId(mid))

\* lines 49-300: an envelope of any other type matches no branch
OtherType(c) ==
  /\ RecvReady(c)
  /\ recvd' = Frame(c, "other", Uuid)
  /\ nevents' = nevents + 1
  /\ sent' = NoMsg
  /\ UNCHANGED <<nreqs, conn, pc, is_extension, locals, globals, now, history, clients>>

\* lines 43, 301-320: json.loads raises, the inner except ends the handler
Malformed(c) ==
  /\ RecvReady(c)
  /\ recvd' = Frame(c, "malformed", None)
  /\ nevents' = nevents + 1
  /\ RunFinally(c)
  /\ sent' = NoMsg
  /\ UNCHANGED <<nreqs, conn, is_extension, locals, pending_requests, now, history, clients>>


\* ---- lines 107-130, 220-229, 269-278: after the ack, forward the work order ----

\* the loop that neither deletes the entry nor breaks after its terminal envelope
AfterTerminalSend_NoBreak == "wait"

\* lines 154-156, 172-174, 179-181, 187-189, 296-298: where a wait loop goes
\* after it has sent its terminal envelope (del, then break)
AfterTerminalSend == "del"

\* an exception that leaves the handler: lines 301-320
Crash(c) ==
  /\ RunFinally(c)
  /\ ClearLocals(c)
  /\ Over(c)
  /\ sent' = NoMsg
  /\ UNCHANGED pending_requests

\* a terminal envelope followed by `continue` or `break`
TerminalAndNextFrame(c, env) ==
  /\ sent' = env
  /\ NextFrame(c)
  /\ ClearLocals(c)
  /\ Over(c)
  /\ pending_requests' = Answered(pending_requests, c, env)

\* a forward whose failed send is not caught: the handler goes to its finally
Forward_NoTry(c) ==
  /\ pc[c] = "forward"
  /\ IF msg_type[c] = "cli_request" /\ request_type[c] = "other"
       THEN IF CanSend(c)
              THEN TerminalAndNextFrame(c, Envelope(c, "error", message_id[c], "none", c))
              ELSE Crash(c)
     ELSE IF CanSend(extension_ws)
       THEN /\ sent' = Envelope(extension_ws, request_type[c], message_id[c], "none", c)
            /\ pc' = [pc EXCEPT ![c] = "wait"]
            /\ SetLocals(c, msg_type[c], request_type[c], message_id[c], now,
                         IF msg_type[c] = "cli_request" THEN now ELSE 0)
            /\ Ongoing(c, 0)
            /\ UNCHANGED globals
     ELSE Crash(c)
  /\ recvd' = NoFrame
  /\ UNCHANGED <<conn, is_extension, now, nevents, nreqs>>

Forward(c) ==
  /\ pc[c] = "forward"
  /\ IF msg_type[c] = "cli_request" /\ request_type[c] = "other"
       THEN \* lines 127-130: unknown request type
            IF CanSend(c)
              THEN TerminalAndNextFrame(c, Envelope(c, "error", message_id[c], "none", c))
              ELSE Crash(c)
     ELSE IF CanSend(extension_ws)
       THEN \* lines 111, 121, 224, 273, then 135-138, 232-233, 281-282
            /\ sent' = Envelope(extension_ws, request_type[c], message_id[c], "none", c)
            /\ pc' = [pc EXCEPT ![c] = "wait"]
            /\ SetLocals(c, msg_type[c], request_type[c], message_id[c], now,
                         IF msg_type[c] = "cli_request" THEN now ELSE 0)
            /\ Ongoing(c, 0)
            /\ UNCHANGED globals
     ELSE \* lines 113-116, 123-126, 226-229, 275-278: the send raised
          IF CanSend(c)
            THEN TerminalAndNextFrame(c, Envelope(c, "error", message_id[c], ForwardFailedType(c), c))
            ELSE Crash(c)
  /\ recvd' = NoFrame
  /\ UNCHANGED <<conn, is_extension, now, nevents, nreqs>>

\* ---- lines 142-196, 236-245, 285-300: the wait loops ----

\* lines 149-151, 237-238, 286-287
TimedOut(c) == now - start_time[c] > LoopTimeout(c)

\* line 159
HeartbeatDue(c) == now - last_heartbeat[c] >= heartbeat_interval

TimeoutEnvelope(c) == Envelope(c, "error", message_id[c], TimeoutType(c), c)

ResponseEnvelope(c, e) ==
  [Envelope(c, "response", message_id[c], "none", c) EXCEPT !.body = ResponseBody(e)]

\* lines 23-31: send_heartbeat(message_id); a failed send is only logged
send_heartbeat(c, m) ==
  IF m \in DOMAIN pending_requests /\ CanSend(pending_requests[m].client_ws)
    THEN Envelope(pending_requests[m].client_ws, "heartbeat", m, "none", c)
    ELSE NoMsg

\* an except clause that breaks without deleting the entry
LoopExcept_NoDelete(c) ==
  /\ pending_requests' = pending_requests
  /\ sent' = NoMsg
  /\ NextFrame(c)
  /\ ClearLocals(c)
  /\ Over(c)

\* lines 192-196: the loop's except clause
LoopExcept(c) ==
  /\ pending_requests' = Delete(pending_requests, message_id[c])
  /\ sent' = NoMsg
  /\ NextFrame(c)
  /\ ClearLocals(c)
  /\ Over(c)

\* a terminal envelope sent from inside a loop that deletes afterwards
TerminalInLoop(c, env, rt, hb) ==
  /\ sent' = env
  /\ pc' = [pc EXCEPT ![c] = AfterTerminalSend]
  /\ SetLocals(c, msg_type[c], rt, message_id[c], start_time[c], hb)
  /\ Ongoing(c, 1)
  /\ pending_requests' = Answered(pending_requests, c, env)
  /\ UNCHANGED <<extension_ws, client_ws_list>>

\* asyncio.sleep(0.1): lines 191, 245, 300
Sleep(c, rt, hb) ==
  /\ sent' = NoMsg
  /\ pc' = [pc EXCEPT ![c] = "wait"]
  /\ SetLocals(c, msg_type[c], rt, message_id[c], start_time[c], hb)
  /\ Ongoing(c, 0)
  /\ UNCHANGED globals

\* lines 163-191: check if the response arrived
CheckResponse(c, hb) ==
  LET m == message_id[c] IN
  IF m \in DOMAIN pending_requests
    THEN LET e == pending_requests[m] IN
         IF Ready(e)
           THEN IF CanSend(c)
                  THEN TerminalInLoop(c, ResponseEnvelope(c, e), e.type, hb)
                  ELSE LoopExcept(c)
           ELSE Sleep(c, e.type, hb)
    ELSE Sleep(c, request_type[c], hb)

\* a loop that reports the missing entry to the client before it breaks
EntryGone_Report(c) ==
  /\ sent' = Envelope(c, "error", message_id[c], "none", c)
  /\ NextFrame(c)
  /\ ClearLocals(c)
  /\ rqKind' = [rqKind EXCEPT ![c] = "none"]
  /\ nTerminal' = [nTerminal EXCEPT ![c] = 0]
  /\ vanished' = c
  /\ UNCHANGED <<pending_requests, lastReg, overCeiling, clients>>

\* lines 145-147: the entry of the request is not in the table any more
EntryGone(c) ==
  /\ sent' = NoMsg
  /\ NextFrame(c)
  /\ ClearLocals(c)
  /\ rqKind' = [rqKind EXCEPT ![c] = "none"]
  /\ nTerminal' = [nTerminal EXCEPT ![c] = 0]
  /\ vanished' = c
  /\ UNCHANGED <<pending_requests, lastReg, overCeiling, clients>>

\* lines 142-161: one iteration of the cli_request wait loop, up to its first await
PollCli(c) ==
  LET m == message_id[c] IN
  IF m \notin DOMAIN pending_requests
    THEN EntryGone(c)
  ELSE IF TimedOut(c)
    THEN \* lines 151-156
         IF CanSend(c)
           THEN TerminalInLoop(c, TimeoutEnvelope(c), request_type[c], last_heartbeat[c])
           ELSE LoopExcept(c)
  ELSE IF HeartbeatDue(c)
    THEN \* lines 159-160
         /\ sent' = send_heartbeat(c, m)
         /\ pc' = [pc EXCEPT ![c] = "check"]
         /\ Ongoing(c, 0)
         /\ UNCHANGED <<locals, globals>>
  ELSE CheckResponse(c, last_heartbeat[c])

\* lines 236-245: the loop of a direct focus_tab envelope never looks at the table
PollFocus(c) ==
  IF TimedOut(c)
    THEN IF CanSend(c) THEN TerminalAndNextFrame(c, TimeoutEnvelope(c)) ELSE Crash(c)
    ELSE Sleep(c, request_type[c], last_heartbeat[c])

\* lines 285-300: the loop of a direct debug_tabs envelope
PollDebug(c) ==
  LET m == message_id[c] IN
  IF TimedOut(c)
    THEN IF CanSend(c) THEN TerminalAndNextFrame(c, TimeoutEnvelope(c)) ELSE Crash(c)
  ELSE IF m \in DOMAIN pending_requests /\ pending_requests[m].tabs # "None"
    THEN IF CanSend(c)
           THEN TerminalInLoop(c, [Envelope(c, "response", m, "none", c) EXCEPT
                                     !.body = [NoBody EXCEPT
                                        !.tabs = pending_requests[m].tabs,
                                        !.tab_count = pending_requests[m].tab_count]],
                               request_type[c], last_heartbeat[c])
           ELSE Crash(c)
  ELSE Sleep(c, request_type[c], last_heartbeat[c])

Poll(c) ==
  /\ pc[c] = "wait"
  /\ IF msg_type[c] = "focus_tab" THEN PollFocus(c)
     ELSE IF msg_type[c] = "debug_tabs" THEN PollDebug(c)
     ELSE PollCli(c)
  /\ recvd' = NoFrame
  /\ UNCHANGED <<conn, is_extension, now, nevents, nreqs>>

\* lines 161-191: back from the heartbeat's await
Check(c) ==
  /\ pc[c] = "check"
  /\ CheckResponse(c, now)
  /\ recvd' = NoFrame
  /\ UNCHANGED <<conn, is_extension, now, nevents, nreqs>>

\* lines 155, 173, 180, 188, 297: back from the terminal envelope's await
Del(c) ==
  /\ pc[c] = "del"
  /\ IF message_id[c] \in DOMAIN pending_requests
       THEN /\ pending_requests' = Delete(pending_requests, message_id[c])
            /\ sent' = NoMsg
            /\ NextFrame(c)
            /\ ClearLocals(c)
            /\ Over(c)
     ELSE IF msg_type[c] = "cli_request"
       THEN \* KeyError, caught at line 192
            LoopExcept(c)
     ELSE \* KeyError at line 297 leaves the handler
          Crash(c)
  /\ recvd' = NoFrame
  /\ UNCHANGED <<conn, is_extension, now, nevents, nreqs>>

\* ---- the relay ----

Next ==
  \/ \E c \in Conns : Connect(c)
  \/ \E c \in Conns : Close(c)
  \/ \E c \in Conns : EndOfStream(c)
  \/ \E t \in Instants : Tick(t)
  \/ \E c \in Conns : Register(c)
  \/ \E c \in Conns, mid \in MsgIds, data \in ExecData : Response(c, mid, data)
  \/ \E c \in Conns, mid \in MsgIds \cup {None}, rt \in RequestTypes : CliRequest(c, mid, rt)
  \/ \E c \in Conns, mid \in MsgIds \cup {None}, kind \in {"focus_tab", "debug_tabs"} :
        DirectRequest(c, mid, kind)
  \/ \E c \in Conns : OtherType(c)
  \/ \E c \in Conns : Malformed(c)
  \/ \E c \in Conns : Forward(c)
  \/ \E c \in Conns : Poll(c)
  \/ \E c \in Conns : Check(c)
  \/ \E c \in Conns : Del(c)

Spec == Init /\ [][Next]_vars

\* The relay once its first connection has registered as executor (lines 49-56
\* have run for it and its ack has been written), before any other event.
InitRegistered ==
  /\ conn = [c \in Conns |-> IF c = 1 THEN "open" ELSE "new"]
  /\ pc = [c \in Conns |-> IF c = 1 THEN "recv" ELSE "idle"]
  /\ is_extension = [c \in Conns |-> c = 1]
  /\ msg_type = [c \in Conns |-> "none"]
  /\ request_type = [c \in Conns |-> "none"]
  /\ message_id = [c \in Conns |-> None]
  /\ start_time = [c \in Conns |-> 0]
  /\ last_heartbeat = [c \in Conns |-> 0]
  /\ extension_ws = 1
  /\ pending_requests = << >>
  /\ client_ws_list = << >>
  /\ now = 0
  /\ nevents = 0
  /\ nreqs = 0
  /\ recvd = NoFrame
  /\ sent = NoMsg
  /\ rqKind = [c \in Conns |-> "none"]
  /\ nTerminal = [c \in Conns |-> 0]
  /\ lastReg = 1
  /\ overCeiling = [c \in Conns |-> FALSE]
  /\ vanished = None
  /\ NoClients

SpecRegistered == InitRegistered /\ [][Next]_vars

\* ---- chatgpt_cli.py: the command-line driver ----

\* lines 27-34: what main() prints for the frame it read
CliOutput(env) ==
  IF env.type = "response"
    THEN Get(env.body, "response", "No response")
    ELSE "Unexpected response"

\* lines 13-34 and the end of `async with`, seen from the relay: the
\* cli_request the relay has just read on c, with neither messageId nor
\* request_type, was written by main() (line 22); the recv of line 26 returns
\* the first envelope the relay wrote to c after it, which is the one written
\* by the step that read the request; main() prints and closes the connection
CliMain(c) ==
  /\ cli.pc = "idle"
  /\ conn[c] = "open"
  /\ ~is_extension[c]
  /\ recvd.from = c
  /\ recvd.type = "cli_request"
  /\ recvd.id \notin MsgIds
  /\ request_type[c] \in {"none", "inject"}
  /\ sent.to = c
  /\ nevents < MaxEvents
  /\ nevents' = nevents + 1
  /\ cli' = [pc |-> "done", ws |-> c, got |-> sent, out |-> CliOutput(sent)]
  /\ conn' = [conn EXCEPT ![c] = "closed"]
  /\ recvd' = NoFrame
  /\ sent' = NoMsg
  /\ UNCHANGED <<pc, is_extension, locals, globals, now, nreqs, history, drv, ens, eh, ses>>

\* lines 13-26, 36-38: main() has written its request on c and the relay reads
\* nothing from c for 120 s; main() exits with status 1
CliTimeout(c) ==
  /\ cli.pc = "idle"
  /\ conn[c] = "open"
  /\ ~is_extension[c]
  /\ pc[c] = "recv"
  /\ recvd.from # c
  /\ nevents < MaxEvents
  /\ nevents' = nevents + 1
  /\ cli' = [pc |-> "done", ws |-> c, got |-> NoMsg, out |-> "ERROR: Timeout"]
  /\ conn' = [conn EXCEPT ![c] = "closed"]
  /\ recvd' = NoFrame
  /\ sent' = NoMsg
  /\ UNCHANGED <<pc, is_extension, locals, globals, now, nreqs, history, drv, ens, eh, ses>>

\* the relay and one run of chatgpt_cli.py
NextCli ==
  \/ Next
  \/ \E c \in Conns : CliMain(c)
  \/ \E c \in Conns : CliTimeout(c)

SpecCli == Init /\ [][NextCli]_vars

\* ---- chatgpt_tab_manager.py: send_focus_request and debug_tabs ----

\* lines 87 and 214: asyncio.wait_for(websocket.recv(), timeout=1.0)
recv_timeout == 1

\* lines 82 and 209: the local `timeout` of each call, in seconds
CallTimeout(fn) == IF fn = "send_focus_request" THEN 5 ELSE 10

\* pages the executor can report
Pages ==
  { [url |-> "https://chatgpt.com/", title |-> "ChatGPT"],
    [url |-> "chrome://settings/?q=openai.com", title |-> "Settings - OpenAI"],
    [url |-> "chrome://newtab/", title |-> "New Tab"],
    [url |-> "https://example.com/", title |-> "ChatGPT prompts"],
    [url |-> "https://openai.com/", title |-> "Home" ] }

\* the `tabs` of a response
TabLists == {T \in SUBSET Pages : Cardinality(T) <= MaxTabs}

\* the frames a call can read from its connection
DrvFrames ==
  {DrvFrame(t, TRUE, "Absent", {}) : t \in {"ack", "heartbeat", "error", "other"}}
  \cup {DrvFrame("response", m, sx, {}) : m \in BOOLEAN, sx \in {"True", "False", "Absent"}}
  \cup {DrvFrame("response", TRUE, "Absent", T) : T \in TabLists}

\* lines 71-82 and 198-209: connect, send the cli_request, start_time = time.time()
Call(fn) == [DrvIdle EXCEPT !.fn = fn, !.pc = "test"]

\* a `return` of the call
Return(d, how, ok, tabs) ==
  [d EXCEPT !.pc = "done", !.how = how, !.ok = ok, !.tabs = tabs]

\* lines 84 and 211, 115-116 and 240-241: the loop test
DrvLoopTest ==
  /\ drv.pc = "test"
  /\ drv' = IF drv.clock < CallTimeout(drv.fn) * Resolution
              THEN [drv EXCEPT !.pc = "recv", !.recvAt = drv.clock]
              ELSE Return(drv, "timeout", FALSE, {})
  /\ UNCHANGED <<relay, cli, ens, eh, ses>>

\* time passes while the call awaits recv
DrvWait ==
  /\ drv.pc = "recv"
  /\ drv.clock < drv.recvAt + recv_timeout * Resolution
  /\ drv' = [drv EXCEPT !.clock = @ + 1]
  /\ UNCHANGED <<relay, cli, ens, eh, ses>>

\* lines 111-113 and 236-238: wait_for times out, `continue`
DrvRecvTimeout ==
  /\ drv.pc = "recv"
  /\ drv.clock = drv.recvAt + recv_timeout * Resolution
  /\ drv' = [drv EXCEPT !.pc = "test"]
  /\ UNCHANGED <<relay, cli, ens, eh, ses>>

\* lines 91-109 and 218-234: what the call does with the frame it read
Dispatch(d, f) ==
  IF f.mine /\ f.type = "response"
    THEN IF d.fn = "send_focus_request"
           THEN Return(d, "response", f.success = "True", {})
           ELSE Return(d, "response", FALSE, f.tabs)
  ELSE IF f.type = "ack"
    THEN [d EXCEPT !.pc = "test"]
  ELSE IF f.type = "error"
    THEN IF d.fn = "debug_tabs"
           THEN Return(d, "error", FALSE, {})
           ELSE [d EXCEPT !.pc = "test"]
  ELSE [d EXCEPT !.pc = "test"]

\* lines 87-109 and 214-234: a frame arrives before wait_for times out
DrvRecv(f) ==
  /\ drv.pc = "recv"
  /\ drv.clock < drv.recvAt + recv_timeout * Resolution
  /\ drv' = [Dispatch(drv, f) EXCEPT !.last = f,
                                     !.first = IF @ = "none" THEN f.type ELSE @]
  /\ UNCHANGED <<relay, cli, ens, eh, ses>>

\* lines 118-120 and 243-245: recv raises, the call returns False or []
DrvRaises ==
  /\ drv.pc = "recv"
  /\ drv' = Return(drv, "exception", FALSE, {})
  /\ UNCHANGED <<relay, cli, ens, eh, ses>>

\* ---- chatgpt_tab_manager.py: ensure_chatgpt_tab_focused ----

\* str.lower() on the strings of Pages
lower(str) ==
  CASE str = "ChatGPT" -> "chatgpt"
    [] str = "Settings - OpenAI" -> "settings - openai"
    [] str = "New Tab" -> "new tab"
    [] str = "ChatGPT prompts" -> "chatgpt prompts"
    [] str = "Home" -> "home"
    [] str = "Chrome" -> "chrome"
    [] str = "Failed" -> "failed"
    [] str = "Please" -> "please"
    [] str = "Google" -> "google"
    [] str = "Could" -> "could"
    [] str = "Extension" -> "extension"
    [] str = "Required" -> "required"
    [] str = "UI" -> "ui"
    [] str = "Network" -> "network"
    [] str = "No" -> "no"
    [] OTHER -> str

\* line 158: url.startswith("chrome://")
StartsWithChrome(url) == url \in {"chrome://settings/?q=openai.com", "chrome://newtab/"}

\* line 158: any(domain in url for domain in [...])
HasDomain(url) ==
  url \in {"https://chatgpt.com/", "chrome://settings/?q=openai.com", "https://openai.com/"}

\* line 160: "chatgpt" in title or "openai" in title
TitleMatches(title) == title \in {"chatgpt", "settings - openai", "chatgpt prompts"}

\* lines 153-161
ChatGPTTabs(tabs) ==
  {tab \in tabs : /\ ~(StartsWithChrome(lower(tab.url)) \/ ~HasDomain(lower(tab.url)))
                  /\ TitleMatches(lower(tab.title))}

\* lines 136-150: check_server_running raises RuntimeError without a server;
\* without Chrome the result is False; else discovery starts
EnsureBegin(server, chrome) ==
  /\ ens.pc = "idle"
  /\ IF ~server
       THEN /\ ens' = [ens EXCEPT !.pc = "done", !.result = "RuntimeError"]
            /\ drv' = drv
     ELSE IF ~chrome
       THEN /\ ens' = [ens EXCEPT !.pc = "done", !.result = "False"]
            /\ drv' = drv
     ELSE /\ ens' = [ens EXCEPT !.pc = "discover", !.nDiscover = @ + 1]
          /\ drv' = Call("debug_tabs")
  /\ UNCHANGED <<relay, cli, eh, ses>>

\* lines 150-186: debug_tabs has returned; opened is what
\* open_chatgpt_in_chrome returns (lines 122-134)
AfterDiscovery(opened) ==
  /\ ens.pc = "discover"
  /\ drv.pc = "done"
  /\ IF ChatGPTTabs(drv.tabs) # {}
       THEN /\ ens' = [ens EXCEPT !.pc = "focus", !.tabs = drv.tabs, !.nFocus = @ + 1]
            /\ drv' = Call("send_focus_request")
     ELSE IF opened
       THEN /\ ens' = [ens EXCEPT !.pc = "refocus", !.tabs = drv.tabs,
                                  !.nOpen = @ + 1, !.nFocus = @ + 1]
            /\ drv' = Call("send_focus_request")
     ELSE /\ ens' = [ens EXCEPT !.pc = "done", !.tabs = drv.tabs, !.nOpen = @ + 1,
                                !.result = "False"]
          /\ drv' = drv
  /\ UNCHANGED <<relay, cli, eh, ses>>

\* a result that does not look at what send_focus_request returned
FocusOutcome_Ignored(success) == "True"

\* lines 170-176 and 186-192
FocusOutcome(success) == IF success THEN "True" ELSE "False"

\* lines 170-176 and 186-192: send_focus_request has returned
AfterFocus ==
  /\ ens.pc \in {"focus", "refocus"}
  /\ drv.pc = "done"
  /\ ens' = [ens EXCEPT !.pc = "done", !.result = FocusOutcome(drv.ok)]
  /\ drv' = drv
  /\ UNCHANGED <<relay, cli, eh, ses>>

NextTabs ==
  \/ \E server \in BOOLEAN, chrome \in BOOLEAN : EnsureBegin(server, chrome)
  \/ DrvLoopTest
  \/ DrvWait
  \/ DrvRecvTimeout
  \/ \E f \in DrvFrames : DrvRecv(f)
  \/ DrvRaises
  \/ \E opened \in BOOLEAN : AfterDiscovery(opened)
  \/ AfterFocus

SpecTabs == Init /\ [][NextTabs]_vars

\* ---- error_handler.py ----

\* lines 157-175: the substrings categorize_error looks for
Keywords ==
  {"chrome", "not found", "not running", "failed", "connection refused", "server",
   "extension", "not connected", "tab", "missing", "visible", "background",
   "element", "injection", "timeout", "network", "connection"}

\* an error message, lower-cased (line 155), as the set of keywords that occur
\* in it; "connection" occurs in every message "connection refused" occurs in
Messages ==
  {m \in SUBSET Keywords : /\ Cardinality(m) <= MaxKeywords
                           /\ "connection refused" \in m => "connection" \in m}

\* lines 10-95: the error_type of the exception classes
ErrorTypes ==
  {"unknown", "chrome_not_running", "chrome_launch_failed", "chrome_not_installed",
   "server_not_running", "extension_not_connected", "chatgpt_tab_missing",
   "tab_not_visible", "element_not_found", "injection_failed", "response_timeout",
   "network_error"}

\* lines 99-145: the keys of each entry
ERROR_MESSAGES ==
  [t \in {"chrome_not_running", "chrome_not_installed", "server_not_running",
          "extension_not_connected", "chatgpt_tab_missing", "tab_not_visible",
          "element_not_found", "injection_failed", "response_timeout",
          "network_error"} |-> {"title", "description", "recovery", "action"}]

\* lines 148-150
get_error_message(error_type) ==
  IF error_type \in DOMAIN ERROR_MESSAGES
    THEN ERROR_MESSAGES[error_type]
    ELSE {"title", "description", "recovery", "action"}

\* lines 153-178
categorize_error(error_lower) ==
  IF "chrome" \in error_lower /\ "not found" \in error_lower
    THEN "chrome_not_installed"
  ELSE IF "chrome" \in error_lower
          /\ ("not running" \in error_lower \/ "failed" \in error_lower)
    THEN "chrome_not_running"
  ELSE IF "connection refused" \in error_lower \/ "server" \in error_lower
    THEN "server_not_running"
  ELSE IF "extension" \in error_lower /\ "not connected" \in error_lower
    THEN "extension_not_connected"
  ELSE IF "tab" \in error_lower
          /\ ("missing" \in error_lower \/ "not found" \in error_lower)
    THEN "chatgpt_tab_missing"
  ELSE IF "tab" \in error_lower
          /\ ("visible" \in error_lower \/ "background" \in error_lower)
    THEN "tab_not_visible"
  ELSE IF "element" \in error_lower /\ "not found" \in error_lower
    THEN "element_not_found"
  ELSE IF "injection" \in error_lower /\ "failed" \in error_lower
    THEN "injection_failed"
  ELSE IF "timeout" \in error_lower
    THEN "response_timeout"
  ELSE IF "network" \in error_lower \/ "connection" \in error_lower
    THEN "network_error"
  ELSE "unknown"

\* lines 20-95: the exception classes with a default message
ErrorClasses ==
  {"ChromeNotRunningError", "ChromeLaunchError", "ChromeNotInstalledError",
   "ServerConnectionError", "ExtensionNotConnectedError", "ChatGPTTabMissingError",
   "TabNotVisibleError", "ElementNotFoundError", "InjectionFailedError",
   "ResponseTimeoutError", "NetworkError"}

\* lines 23-94: the default message of each class, as its words and
\* punctuation marks in order (line 87: the timeout message is the default
\* followed by " (waited 120s)")
default_message ==
  [ChromeNotRunningError |-> <<"Chrome", "is", "not", "running">>,
   ChromeLaunchError |-> <<"Failed", "to", "launch", "Chrome">>,
   ChromeNotInstalledError |->
     <<"Chrome", "not", "found", ".", "Please", "install", "Google", "Chrome", ".">>,
   ServerConnectionError |-> <<"Could", "not", "connect", "to", "server">>,
   ExtensionNotConnectedError |-> <<"Extension", "not", "connected", "to", "server">>,
   ChatGPTTabMissingError |-> <<"ChatGPT", "tab", "not", "found">>,
   TabNotVisibleError |-> <<"ChatGPT", "tab", "not", "visible">>,
   ElementNotFoundError |-> <<"Required", "UI", "element", "not", "found">>,
   InjectionFailedError |-> <<"Failed", "to", "inject", "message">>,
   ResponseTimeoutError |-> <<"ChatGPT", "response", "timeout", "(", "waited", "120s", ")">>,
   NetworkError |-> <<"Network", "communication", "error">>]

\* lines 24-95: the error_type each class passes to ChatGPTExtensionError
declared_error_type ==
  [ChromeNotRunningError |-> "chrome_not_running",
   ChromeLaunchError |-> "chrome_launch_failed",
   ChromeNotInstalledError |-> "chrome_not_installed",
   ServerConnectionError |-> "server_not_running",
   ExtensionNotConnectedError |-> "extension_not_connected",
   ChatGPTTabMissingError |-> "chatgpt_tab_missing",
   TabNotVisibleError |-> "tab_not_visible",
   ElementNotFoundError |-> "element_not_found",
   InjectionFailedError |-> "injection_failed",
   ResponseTimeoutError |-> "response_timeout",
   NetworkError |-> "network_error"]

\* server.py lines 86, 203, 252: the error text and error_type the relay sends
\* when no executor is registered
no_extension_error ==
  [error |-> <<"No", "extension", "connected">>,
   error_type |-> "extension_not_connected"]

\* the words of a keyword of categorize_error
KeywordWords(k) ==
  CASE k = "not found" -> <<"not", "found">>
    [] k = "not running" -> <<"not", "running">>
    [] k = "connection refused" -> <<"connection", "refused">>
    [] k = "not connected" -> <<"not", "connected">>
    [] OTHER -> <<k>>

\* lines 157-175: `keyword in error_lower`, on a text given as its words (no
\* keyword occurs inside a longer word of the default messages)
Occurs(k, text) ==
  \E i \in 1..Len(text) :
    /\ i + Len(KeywordWords(k)) - 1 <= Len(text)
    /\ SubSeq(text, i, i + Len(KeywordWords(k)) - 1) = KeywordWords(k)

\* line 155 and lines 157-175: the keywords that occur in error_message.lower()
KeywordsIn(text) ==
  {k \in Keywords : Occurs(k, [i \in 1..Len(text) |-> lower(text[i])])}

\* line 192
retriable_errors ==
  {"response_timeout", "network_error", "element_not_found", "injection_failed",
   "extension_not_connected", "server_not_running"}

\* a test that allows attempt_count = max_attempts
should_retry_Inclusive(error_type, attempt_count, max_attempts) ==
  error_type \in retriable_errors /\ attempt_count <= max_attempts

\* lines 189-194
should_retry(error_type, attempt_count, max_attempts) ==
  error_type \in retriable_errors /\ attempt_count < max_attempts

\* an operation has failed with a message and a RetryStrategy(max_attempts)
\* is at hand (lines 184-187)
InitErrors ==
  /\ RelayInit
  /\ cli = CliIdle
  /\ drv = DrvIdle
  /\ ens = EnsIdle
  /\ ses = SesIdle
  /\ eh \in {[EhIdle EXCEPT !.pc = "raised", !.message = m, !.max_attempts = n] :
               m \in Messages, n \in 0..MaxAttempts}

\* lines 148-178: the message is categorized and its guidance looked up
Categorize ==
  /\ eh.pc = "raised"
  /\ eh' = [eh EXCEPT !.pc = "failed",
                      !.error_type = categorize_error(eh.message),
                      !.guidance = get_error_message(categorize_error(eh.message))]
  /\ UNCHANGED <<relay, cli, drv, ens, ses>>

\* lines 189-194 in a retry loop: the operation is tried again, attempt_count
\* is incremented, and it fails again with an error of type t
Retry(t) ==
  /\ eh.pc = "failed"
  /\ should_retry(eh.error_type, eh.attempt_count, eh.max_attempts)
  /\ eh' = [eh EXCEPT !.attempt_count = @ + 1, !.error_type = t]
  /\ UNCHANGED <<relay, cli, drv, ens, ses>>

\* lines 189-194 in a retry loop: should_retry is False, the loop ends
GiveUp ==
  /\ eh.pc = "failed"
  /\ ~should_retry(eh.error_type, eh.attempt_count, eh.max_attempts)
  /\ eh' = [eh EXCEPT !.pc = "stopped"]
  /\ UNCHANGED <<relay, cli, drv, ens, ses>>

NextErrors ==
  \/ Categorize
  \/ \E t \in ErrorTypes : Retry(t)
  \/ GiveUp

SpecErrors == InitErrors /\ [][NextErrors]_vars

\* ---- chatgpt.py: ChatGPTSession ----

\* line 112
session_timeout == 120

\* the instants at which the caller's loop reads the clock
SessionInstants == {0, 60, session_timeout}

\* what the subprocess may write on a line of its output: the JSON response, a
\* log line, a line of blanks, bytes that are not UTF-8
LineTexts == {"response", "log", "blank", "undecodable"}

\* lines 56-81: start()
SessionStart ==
  /\ ses.pc = "new"
  /\ ses' = [ses EXCEPT !.pc = "idle"]
  /\ UNCHANGED <<relay, cli, drv, ens, eh>>

\* lines 97-112: send_prompt up to its loop
send_prompt ==
  /\ ses.pc = "idle"
  /\ ses.stdin < MaxPrompts
  /\ ses' = [ses EXCEPT !.pc = "wait", !.stdin = @ + 1, !.elapsed = 0, !.result = NoLine]
  /\ UNCHANGED <<relay, cli, drv, ens, eh>>

\* the subprocess writes a line; it writes a response only for a prompt it has
\* been sent, one for each prompt at most
Subprocess(text) ==
  /\ ses.pc # "new"
  /\ ses.produced < MaxLines
  /\ text = "response"
       => Cardinality({i \in 1..Len(ses.pipe) : ses.pipe[i].text = "response"})
          + Cardinality({i \in 1..Len(ses.stdout_lines) :
                           ses.stdout_lines[i].text = "response"})
          + Len(ses.returned) < ses.stdin
  /\ ses' = [ses EXCEPT !.produced = @ + 1,
                        !.pipe = Append(@, [text |-> text, n |-> ses.produced + 1,
                                            after |-> ses.stdin])]
  /\ UNCHANGED <<relay, cli, drv, ens, eh>>

\* lines 88-95: one iteration of the reader thread's loop
read_stdout ==
  /\ ses.pipe # <<>>
  /\ ses' = [ses EXCEPT !.pipe = Tail(@),
                        !.stdout_lines = IF Head(ses.pipe).text \in {"response", "log"}
                                           THEN Append(@, Head(ses.pipe))
                                           ELSE @]
  /\ UNCHANGED <<relay, cli, drv, ens, eh>>

\* line 116: line.strip().startswith('{"response":')
IsResponseLine(line) == line.text = "response"

\* lines 115-116: the index of the first response line of the list, 0 if none
FirstResponse(lines) ==
  IF \E i \in 1..Len(lines) : IsResponseLine(lines[i])
    THEN CHOOSE i \in 1..Len(lines) :
           /\ IsResponseLine(lines[i])
           /\ \A j \in 1..(i - 1) : ~IsResponseLine(lines[j])
    ELSE 0

\* line 117: list.remove(x) removes the first element equal to x
ListRemoveFirst(lines, x) ==
  LET i == CHOOSE k \in 1..Len(lines) :
             lines[k] = x /\ \A j \in 1..(k - 1) : lines[j] # x
  IN  [k \in 1..(Len(lines) - 1) |-> IF k < i THEN lines[k] ELSE lines[k + 1]]

\* lines 114-121: an iteration of the loop that finds a response line
SessionScan ==
  /\ ses.pc = "wait"
  /\ ses.elapsed < session_timeout
  /\ FirstResponse(ses.stdout_lines) # 0
  /\ LET line == ses.stdout_lines[FirstResponse(ses.stdout_lines)] IN
       ses' = [ses EXCEPT !.pc = "idle",
                          !.stdout_lines = ListRemoveFirst(@, line),
                          !.result = line,
                          !.returned = Append(@, line.n)]
  /\ UNCHANGED <<relay, cli, drv, ens, eh>>

\* lines 114-122: an iteration of the loop that finds none, and time.sleep
SessionSleep ==
  /\ ses.pc = "wait"
  /\ ses.elapsed < session_timeout
  /\ FirstResponse(ses.stdout_lines) = 0
  /\ \E t \in SessionInstants :
       /\ t > ses.elapsed
       /\ ses' = [ses EXCEPT !.elapsed = t]
  /\ UNCHANGED <<relay, cli, drv, ens, eh>>

\* lines 114, 124: the loop ends, RuntimeError("Timeout waiting for response")
SessionTimeout ==
  /\ ses.pc = "wait"
  /\ ~(ses.elapsed < session_timeout)
  /\ ses' = [ses EXCEPT !.pc = "idle"]
  /\ UNCHANGED <<relay, cli, drv, ens, eh>>

NextSession ==
  \/ SessionStart
  \/ send_prompt
  \/ \E text \in LineTexts : Subprocess(text)
  \/ read_stdout
  \/ SessionScan
  \/ SessionSleep
  \/ SessionTimeout

SpecSession == Init /\ [][NextSession]_vars

\* ---- vocabulary of the claims ----

IsTerminal(env) == env.type \in {"response", "error"}
IsWorkOrder(env) == env.type \in {"inject", "focus_tab", "debug_tabs"}

\* handler c has accepted a request and has not finished with it
Handling(c) == pc[c] \in {"forward", "wait", "check", "del"}
CliHandling(c) == Handling(c) /\ msg_type[c] = "cli_request"

\* ---- C1 ----
\* C1: every accepted cli_request gets a terminal envelope (response or error)
\* on the submitting client's connection.  Only the request's own handler sends
\* its terminal envelope, so the claim requires that a handler never finishes
\* with an accepted cli_request, the client still connected, without having
\* sent one.
C1_TerminalBeforeDone ==
  [][\A c \in Conns :
       (CliHandling(c) /\ pc'[c] \notin {"forward", "wait", "check", "del"}
          /\ conn'[c] = "open")
       => (nTerminal[c] >= 1 \/ (IsTerminal(sent') /\ sent'.to = c /\ sent'.by = c))]_vars

\* ---- C2 ----
\* C2: for an accepted request at most one terminal envelope is sent, and it
\* goes to the request's client with the request's messageId: a handler that
\* has sent the terminal envelope of its request sends no second one.  An
\* entry is removed only by a handler whose request has that id, and that
\* handler is done with the request then, so it removes nothing a second time.
C2_AtMostOneTerminal ==
  [][/\ \A c \in Conns :
          (Handling(c) /\ IsTerminal(sent') /\ sent'.by = c)
          => (nTerminal[c] = 0 /\ sent'.to = c /\ sent'.id = message_id[c])
     /\ \A m \in DOMAIN pending_requests :
          m \notin DOMAIN pending_requests'
          => \E c \in Conns : /\ Handling(c) /\ message_id[c] = m
                              /\ pc'[c] \notin {"forward", "wait", "check", "del"}]_vars

\* C2 witness: a cli_request whose terminal envelope has been sent and whose
\* entry is about to be deleted
C2_Witness ==
  \E c \in Conns : /\ pc[c] = "del"
                   /\ msg_type[c] = "cli_request"
                   /\ nTerminal[c] = 1
                   /\ IsTerminal(sent) /\ sent.to = c

\* ---- C3 ----
\* C3: a cli_request read while no executor is registered is answered on that
\* connection with the error extension_not_connected and nothing else: no ack,
\* no work order, no entry, the table and the slot unchanged, and the handler
\* is back at reading (it enters no wait loop, so it sends no heartbeat).
C3_NoExecutorFastFail ==
  [][(recvd'.type = "cli_request" /\ extension_ws = None)
       => /\ sent' = Envelope(recvd'.from, "error", recvd'.id, "extension_not_connected", recvd'.from)
          /\ pending_requests' = pending_requests
          /\ extension_ws' = None
          /\ pc'[recvd'.from] = "recv"]_vars

\* C3 witness: a cli_request has just been rejected
C3_Witness ==
  /\ recvd.type = "cli_request"
  /\ sent.type = "error" /\ sent.info = "extension_not_connected"
  /\ extension_ws = None

\* ---- C4 ----
\* C4: a response whose messageId is not pending sends nothing, changes no
\* entry and leaves the handler that read it at reading the next frame.
C4_UnknownResponseDropped ==
  [][(recvd'.type = "response" /\ recvd'.id \notin DOMAIN pending_requests)
       => /\ sent' = NoMsg
          /\ pending_requests' = pending_requests
          /\ pc'[recvd'.from] = "recv"
          /\ conn'[recvd'.from] = "open"]_vars

\* C4 witness: a response for an id without entry has just been read, here
\* after an earlier request had been accepted
C4_Witness ==
  /\ recvd.type = "response"
  /\ recvd.id \notin DOMAIN pending_requests
  /\ pc[recvd.from] = "recv"
  /\ nreqs >= 1 /\ extension_ws # None

\* ---- C5 ----
\* C5: a heartbeat for an id is sent only while the id's entry is in
\* pending_requests and only to the connection that submitted the request (the
\* executor connection gets one only if it is that connection), and not once
\* that connection has been sent the terminal envelope of the request.
C5_HeartbeatOnlyWhilePending ==
  [][sent'.type = "heartbeat"
       => /\ sent'.id \in DOMAIN pending_requests
          /\ sent'.to = pending_requests[sent'.id].client_ws
          /\ ~pending_requests[sent'.id].answered]_vars

\* ---- C6 ----
\* C6: every work order (inject, focus_tab, debug_tabs) is written to the
\* connection that registered last, never to a superseded one.
C6_ForwardToNewest == IsWorkOrder(sent) => sent.to = lastReg

\* C6 witness: a work order forwarded after a second connection registered
C6_Witness ==
  /\ IsWorkOrder(sent)
  /\ \E d \in Conns : d # lastReg /\ is_extension[d]

\* ---- C7 ----
\* C7: an accepted inject request that has no response stored is ended by
\* the poll that finds more than 300s elapsed, with the error response_timeout
\* to its client, and the entry is deleted next; response_timeout is never sent
\* at 300s or less.
C7_InjectTimeout ==
  [][\A c \in Conns :
       /\ (/\ pc[c] = "wait" /\ pc'[c] # "wait"
           /\ msg_type[c] = "cli_request" /\ rqKind[c] = "inject"
           /\ now - start_time[c] > timeout
           /\ conn[c] = "open"
           /\ message_id[c] \in DOMAIN pending_requests
                => ~Ready(pending_requests[message_id[c]]))
          => (sent' = Envelope(c, "error", message_id[c], "response_timeout", c)
              /\ pc'[c] = "del")
       /\ (sent'.info = "response_timeout" /\ sent'.by = c)
          => now - start_time[c] > timeout]_vars

\* ---- C8 ----
\* C8 as claimed: a cli_request of kind focus_tab (debug_tabs) with no result
\* stored is ended by the poll that finds more than 30s (10s) elapsed, with
\* the error focus_timeout (debug_timeout).
C8_KindTimeoutClaimed ==
  [][\A c \in Conns :
       (/\ pc[c] = "wait" /\ pc'[c] # "wait"
        /\ msg_type[c] = "cli_request" /\ rqKind[c] \in {"focus_tab", "debug_tabs"}
        /\ message_id[c] \in DOMAIN pending_requests
        /\ ~Ready(pending_requests[message_id[c]])
        /\ conn[c] = "open"
        /\ now - start_time[c] >
             (IF rqKind[c] = "focus_tab" THEN focus_tab_timeout ELSE debug_tabs_timeout))
       => (sent'.type = "error" /\ sent'.to = c /\
           sent'.info = (IF rqKind[c] = "focus_tab" THEN "focus_timeout" ELSE "debug_timeout"))]_vars

\* C8 as amended: a timeout error for a cli_request is response_timeout and is
\* sent only after more than 300s, whatever the request_type; focus_timeout
\* and debug_timeout are sent only for direct focus_tab and debug_tabs
\* envelopes, after more than 30s and 10s.
C8_TimeoutByEnvelopeType ==
  [][\A c \in Conns :
       (sent'.type = "error" /\ sent'.by = c
          /\ sent'.info \in {"response_timeout", "focus_timeout", "debug_timeout"})
       => /\ msg_type[c] = "cli_request"
             => (sent'.info = "response_timeout" /\ now - start_time[c] > timeout)
          /\ msg_type[c] = "focus_tab"
             => (sent'.info = "focus_timeout" /\ now - start_time[c] > focus_tab_timeout)
          /\ msg_type[c] = "debug_tabs"
             => (sent'.info = "debug_timeout" /\ now - start_time[c] > debug_tabs_timeout)
          /\ msg_type[c] \in {"cli_request", "focus_tab", "debug_tabs"}]_vars

\* C8 witness: an unanswered cli_request of kind focus_tab or debug_tabs ended
\* with response_timeout
C8_Witness ==
  \E c \in Conns : /\ pc[c] = "del"
                   /\ msg_type[c] = "cli_request"
                   /\ rqKind[c] \in {"focus_tab", "debug_tabs"}
                   /\ sent = Envelope(c, "error", message_id[c], "response_timeout", c)

\* ---- C9 ----
\* C9: a connection opened when ClientCeiling client connections were already
\* open is refused: none of its frames is read, it gets no ack, it owns no
\* entry and no work order is forwarded for it.
C9_CeilingRefuses ==
  \A c \in Conns :
    overCeiling[c] => /\ recvd.from # c
                      /\ ~(sent.type = "ack" /\ sent.to = c)
                      /\ ~(IsWorkOrder(sent) /\ sent.by = c)
                      /\ \A m \in DOMAIN pending_requests : pending_requests[m].client_ws # c

\* ---- C10 ----
\* C10: when the forward of a cli_request's work order fails, the client gets
\* the error injection_failed (inject) or <kind>_failed, the request's entry is
\* removed and the handler is back at reading, not in the wait loop.
C10_ForwardFailure ==
  [][\A c \in Conns :
       (/\ pc[c] = "forward" /\ pc'[c] # "forward"
        /\ msg_type[c] = "cli_request" /\ request_type[c] # "other"
        /\ ~CanSend(extension_ws)
        /\ conn[c] = "open")
       => /\ sent' = Envelope(c, "error", message_id[c],
                              IF request_type[c] = "inject" THEN "injection_failed"
                              ELSE IF request_type[c] = "focus_tab" THEN "focus_tab_failed"
                              ELSE "debug_tabs_failed", c)
          /\ message_id[c] \notin DOMAIN pending_requests'
          /\ pc'[c] = "recv"]_vars


\* ---- C11 ----
\* C11: a cli_request whose messageId already has an entry is rejected with an
\* error on its own connection and leaves the table as it was, so that no
\* entry comes to stand for a second request.
C11_DuplicateRejected ==
  [][(recvd'.type = "cli_request" /\ recvd'.id \in DOMAIN pending_requests)
       => /\ pending_requests' = pending_requests
          /\ sent'.type = "error" /\ sent'.to = recvd'.from /\ sent'.id = recvd'.id
          /\ pc'[recvd'.from] = "recv"]_vars

\* ---- C12 ----
\* C12: a frame that is not JSON is dropped: the handler that read it is still
\* reading afterwards, nothing is sent and the shared state is unchanged.
C12_MalformedDropped ==
  [][recvd'.type = "malformed"
       => /\ pc'[recvd'.from] = "recv"
          /\ sent' = NoMsg
          /\ extension_ws' = extension_ws
          /\ pending_requests' = pending_requests]_vars

\* ---- C13 ----
\* C13: an extension_register is answered on the registering connection with
\* the ack extension_registered and the handler goes on reading from it; a
\* response read later on a registered connection for a pending id is stored
\* in that id's entry.
C13_RegisterKeepsReading ==
  [][/\ recvd'.type = "extension_register"
          => /\ sent' = Envelope(recvd'.from, "ack", recvd'.id, "extension_registered", recvd'.from)
             /\ pc'[recvd'.from] = "recv"
             /\ conn'[recvd'.from] = "open"
     /\ (recvd'.type = "response" /\ is_extension[recvd'.from]
           /\ recvd'.id \in DOMAIN pending_requests)
          => \E data \in ExecData :
               pending_requests' = [pending_requests EXCEPT ![recvd'.id] = Stored(@, data)]]_vars

\* C13 witness: a response read on a registered connection has filled the
\* entry of a pending request
C13_Witness ==
  /\ recvd.type = "response"
  /\ is_extension[recvd.from]
  /\ recvd.id \in DOMAIN pending_requests
  /\ Ready(pending_requests[recvd.id])


\* ---- C14 ----
\* C14 as claimed: from the moment the registered executor connection is
\* closed, every cli_request gets the error extension_not_connected.
C14_ClosedExecutorRejects ==
  [][(recvd'.type = "cli_request"
        /\ (extension_ws = None \/ conn[extension_ws] # "open"))
       => sent' = Envelope(recvd'.from, "error", recvd'.id, "extension_not_connected",
                           recvd'.from)]_vars

\* C14 as amended: the slot is emptied when the handler of the registered
\* connection ends, which is when it next reads from the closed connection;
\* from then on, until a new extension_register, every cli_request gets the
\* error extension_not_connected.  A cli_request read after the close but
\* before the handler has ended finds the slot still set and is accepted.
C14_SlotClearedAtHandlerEnd ==
  [][/\ \A c \in Conns :
          (pc[c] # "done" /\ pc'[c] = "done" /\ extension_ws = c) => extension_ws' = None
     /\ (recvd'.type = "cli_request" /\ extension_ws = None)
          => sent' = Envelope(recvd'.from, "error", recvd'.id, "extension_not_connected",
                              recvd'.from)
     /\ (recvd'.type = "cli_request" /\ extension_ws # None)
          => (sent'.type = "ack" /\ pc'[recvd'.from] = "forward")]_vars

\* C14 witness: the executor closed, its handler ended, and a cli_request read
\* after that has been refused
C14_Witness ==
  /\ lastReg # None
  /\ conn[lastReg] = "closed" /\ pc[lastReg] = "done"
  /\ extension_ws = None
  /\ recvd.type = "cli_request"
  /\ sent.info = "extension_not_connected"


\* ---- C15 ----
\* C15: a request that is in its wait loop when the executor is gone ends with
\* a terminal error to its client: a handler that leaves its wait loop while no
\* executor is connected and no result is stored for its id has sent its
\* client an error envelope for that id.
C15_InFlightFailed ==
  [][\A c \in Conns :
       (/\ pc[c] \in {"wait", "check"}
        /\ pc'[c] \notin {"wait", "check"}
        /\ conn[c] = "open"
        /\ ~CanSend(extension_ws)
        /\ message_id[c] \in DOMAIN pending_requests
             => ~Ready(pending_requests[message_id[c]]))
       => (sent'.type = "error" /\ sent'.to = c /\ sent'.id = message_id[c])]_vars


\* ---- C16 ----
\* C16: the step that accepts a cli_request creates the entry and sends the
\* client the ack request_received, and that ack is sent in no other step, so
\* there is exactly one per accepted request; the work order, every heartbeat
\* and the terminal envelope of the request are sent in later steps of the
\* handler, after the ack.
C16_AckFirst ==
  [][/\ (recvd'.type = "cli_request" /\ extension_ws # None)
          => /\ sent' = Envelope(recvd'.from, "ack", recvd'.id, "request_received", recvd'.from)
             /\ recvd'.id \in DOMAIN pending_requests'
             /\ pending_requests'[recvd'.id].client_ws = recvd'.from
             /\ pc'[recvd'.from] = "forward"
     /\ (sent'.type = "ack" /\ sent'.info = "request_received")
          => (recvd'.from = sent'.to /\ recvd'.id = sent'.id
              /\ recvd'.type \in {"cli_request", "focus_tab", "debug_tabs"})
     /\ \A c \in Conns :
          (sent'.by = c
             /\ (IsWorkOrder(sent') \/ sent'.type = "heartbeat"
                 \/ (IsTerminal(sent') /\ sent'.info # "extension_not_connected")))
          => (Handling(c) /\ message_id[c] = sent'.id /\ recvd' = NoFrame)]_vars

\* C16 witness: the work order of an accepted cli_request goes out, after the ack
C16_Witness ==
  \E c \in Conns : /\ IsWorkOrder(sent) /\ sent.by = c
                   /\ msg_type[c] = "cli_request"
                   /\ pc[c] = "wait"
                   /\ sent.id \in DOMAIN pending_requests


\* ---- C17 ----
\* C17: every entry of pending_requests belongs to a request that some handler
\* is still handling (from accepting it to the deletion that follows its
\* terminal envelope); no entry is left behind by a handler that has gone back
\* to reading or has ended.
C17_NoEntryOutlivesHandling ==
  \A m \in DOMAIN pending_requests :
    \E c \in Conns : Handling(c) /\ message_id[c] = m


\* ---- C18 ----
\* C18: when a client closes while its cli_request is in the wait loop, the
\* close itself changes nothing in the table and sends nothing; afterwards the
\* handler sends nothing (no work order to the executor either), the entry is
\* removed only once a result is stored for it or a timeout has expired (by the
\* handler itself, or by another handler of that id deleting after its own
\* terminal envelope), and when the handler leaves its loop the entry is gone.
C18_ClosedClientEntryKept ==
  [][\A c \in Conns :
       /\ (conn[c] = "open" /\ conn'[c] = "closed")
          => (pending_requests' = pending_requests /\ sent' = NoMsg)
       /\ (/\ conn[c] = "closed" /\ msg_type[c] = "cli_request"
           /\ pc[c] \in {"wait", "check"}
           /\ message_id[c] \in DOMAIN pending_requests
           /\ pending_requests[message_id[c]].client_ws = c)
          => LET m == message_id[c]
                 e == pending_requests[m]
             IN /\ sent'.by # c
                /\ m \notin DOMAIN pending_requests'
                   => \/ Ready(e)
                      \/ \E d \in Conns :
                            /\ message_id[d] = m
                            /\ \/ pc[d] = "del"
                               \/ pc[d] \in {"wait", "check"} /\ now - start_time[d] > timeout
                /\ pc'[c] \notin {"wait", "check"} => m \notin DOMAIN pending_requests']_vars

\* C18 witness: a client has closed during its cli_request and the entry is
\* still in the table, with the executor's result stored in it
C18_Witness ==
  \E c \in Conns : /\ conn[c] = "closed" /\ msg_type[c] = "cli_request"
                   /\ pc[c] \in {"wait", "check"}
                   /\ message_id[c] \in DOMAIN pending_requests
                   /\ pending_requests[message_id[c]].client_ws = c
                   /\ Ready(pending_requests[message_id[c]])


\* ---- C19 ----
\* C19: a response envelope whose messageId is pending resolves that request,
\* whatever the request's kind and whatever fields the envelope carries: after
\* it is read the entry holds a result for the wait loop to find, and a wait
\* loop that ends while a result is stored for its id ends with the terminal
\* response envelope to its client (not with a timeout error), the deletion of
\* the entry coming next.
C19_ResponseResolves ==
  [][/\ (recvd'.type = "response" /\ recvd'.id \in DOMAIN pending_requests)
          => Ready(pending_requests'[recvd'.id])
     /\ \A c \in Conns :
          (/\ pc[c] \in {"wait", "check"}
           /\ pc'[c] \notin {"wait", "check"}
           /\ conn[c] = "open"
           /\ message_id[c] \in DOMAIN pending_requests
           /\ Ready(pending_requests[message_id[c]]))
          => (/\ sent'.type = "response" /\ sent'.to = c /\ sent'.id = message_id[c]
              /\ pc'[c] = "del")]_vars


\* ---- C20 ----
\* the payload fields of a terminal response, by request kind
KindFields(kind) ==
  IF kind = "focus_tab" THEN {"success", "error"}
  ELSE IF kind = "debug_tabs" THEN {"tabs", "tab_count"}
  ELSE {"response", "html"}

\* C20: the terminal response a handler sends goes to its own client under the
\* id of its request and carries the fields of the request's own kind and no
\* others, each with the value the executor's last response for that id
\* reported for it; and a response envelope writes into the entry of its own
\* id only, so that no value is delivered under another id.
C20_ResponseValues ==
  [][/\ \A c \in Conns :
          (sent'.type = "response" /\ sent'.by = c)
          => LET m == message_id[c]
                 got == pending_requests[m].got
             IN /\ sent'.to = c /\ sent'.id = m
                /\ \A f \in DOMAIN NoBody :
                     IF f \in KindFields(rqKind[c])
                       THEN got[f] # "Absent" => sent'.body[f] = got[f]
                       ELSE sent'.body[f] = "Absent"
     /\ recvd'.type = "response"
          => \A m \in DOMAIN pending_requests :
               m # recvd'.id => /\ m \in DOMAIN pending_requests'
                                /\ pending_requests'[m] = pending_requests[m]]_vars


\* ---- C29 ----
\* C29: when the handler of a connection that registered as executor and has
\* since been superseded ends, the registration slot is left as it is: it
\* still names the newer executor.
C29_SupersededCloseKeepsSlot ==
  [][\A c \in Conns :
       (pc[c] # "done" /\ pc'[c] = "done" /\ is_extension[c] /\ extension_ws # c)
       => extension_ws' = extension_ws]_vars

\* ---- C30 ----
\* C30: a response envelope read on a connection other than the currently
\* registered executor changes no entry of pending_requests, so it neither
\* sets the result of a request nor ends one.
C30_OnlyExecutorResolves ==
  [][(recvd'.type = "response" /\ recvd'.from # extension_ws)
       => pending_requests' = pending_requests]_vars


\* ---- C21 ----
\* C21: the command-line driver, having submitted its request to the relay,
\* finishes only on a terminal envelope, and when that envelope is the
\* executor's response it returns the response text.
C21_DriverReturnsResponse ==
  (cli.pc = "done" /\ cli.got # NoMsg)
  => /\ IsTerminal(cli.got)
     /\ cli.got.type = "response" => cli.out = Get(cli.got.body, "response", "No response")


\* ---- C22 ----
\* C22: a send_focus_request or debug_tabs call returns a result taken from a
\* response only if the first frame it read was an ack.
C22_FirstFrameAck ==
  (drv.pc = "done" /\ drv.how = "response") => drv.first = "ack"

\* ---- C23 ----
\* C23: a call returns a result taken from a response only if that response
\* arrived before the deadline fixed when the request was submitted,
\* start_time + timeout.
C23_DeadlineFixed ==
  (drv.pc = "done" /\ drv.how = "response")
  => drv.clock < CallTimeout(drv.fn) * Resolution

\* ---- C24 ----
\* C24: a call that has read an error envelope has returned: it does not go
\* on reading.
C24_ErrorTerminal ==
  drv.last.type = "error" => drv.pc = "done"


\* ---- C25 ----
\* C25: when discovery returned at least one page that passes the filter,
\* ensure_chatgpt_tab_focused issues exactly one focus_tab request and opens no
\* page, and once it has returned its result is True exactly when the focus
\* response reported success.
C25_FoundFocusOnce ==
  (ens.pc \in {"focus", "done"} /\ ChatGPTTabs(ens.tabs) # {})
  => /\ ens.nFocus = 1
     /\ ens.nOpen = 0
     /\ ens.nDiscover = 1
     /\ ens.pc = "done" =>
          (ens.result = "True" <=> /\ drv.fn = "send_focus_request"
                                   /\ drv.how = "response"
                                   /\ drv.last.success = "True")

\* a run in which an internal page was reported next to the target page and
\* the focus succeeded
C25_Witness ==
  /\ ens.pc = "done"
  /\ ens.result = "True"
  /\ ChatGPTTabs(ens.tabs) # {}
  /\ ChatGPTTabs(ens.tabs) # ens.tabs

\* ---- C26 ----
\* C26: when discovery found no target page and a page was opened, a focus_tab
\* request is issued only after discovery has been run a second time.
C26_RetryDiscoveryOnce ==
  (ens.nOpen = 1 /\ ens.nFocus = 1) => ens.nDiscover = 2


\* ---- C27 ----
\* C27: a retry loop driven by should_retry retries exactly when the error is
\* one of the six transient types and attempt_count < max_attempts: every
\* retry is of a transient error and leaves attempt_count <= max_attempts, and
\* the loop stops only when the error is permanent or attempt_count has
\* reached max_attempts.
C27_ShouldRetry ==
  [][LET transient == {"response_timeout", "network_error", "element_not_found",
                       "injection_failed", "extension_not_connected",
                       "server_not_running"}
     IN /\ eh'.attempt_count # eh.attempt_count
             => /\ eh.error_type \in transient
                /\ eh'.attempt_count = eh.attempt_count + 1
                /\ eh'.attempt_count <= eh.max_attempts
        /\ (eh.pc = "failed" /\ eh'.pc = "stopped")
             => \/ eh.error_type \notin transient
                \/ eh.attempt_count >= eh.max_attempts]_vars

\* a loop that has retried max_attempts times and stopped on a transient error
C27_Witness ==
  /\ eh.pc = "stopped"
  /\ eh.max_attempts > 0
  /\ eh.attempt_count = eh.max_attempts
  /\ eh.error_type \in retriable_errors

\* ---- C28 ----
\* C28: a message mentioning a timeout is categorized response_timeout, a
\* message saying the extension is not connected is categorized
\* extension_not_connected, and the guidance looked up for the type has a
\* title, a description and a recovery.
C28_Categorize ==
  eh.pc = "failed" /\ eh.attempt_count = 0
  => /\ "timeout" \in eh.message => eh.error_type = "response_timeout"
     /\ ("extension" \in eh.message /\ "not connected" \in eh.message)
          => eh.error_type = "extension_not_connected"
     /\ {"title", "description", "recovery"} \subseteq eh.guidance


\* ---- C31 ----
\* C31: the step that reads a `response` envelope sends nothing and moves no
\* handler; it leaves the registration slot, the set of entries, every entry of
\* another id, and the owner and kind of the entry of its own id unchanged.  A
\* `response` envelope is written to a client only by that client's own
\* handler, from its wait loop, in a step that reads no frame.
C31_ResponseOnlyStores ==
  [][/\ recvd'.type = "response"
          => /\ sent' = NoMsg
             /\ pc' = pc
             /\ extension_ws' = extension_ws
             /\ DOMAIN pending_requests' = DOMAIN pending_requests
             /\ \A m \in DOMAIN pending_requests :
                  /\ m # recvd'.id => pending_requests'[m] = pending_requests[m]
                  /\ pending_requests'[m].client_ws = pending_requests[m].client_ws
                  /\ pending_requests'[m].type = pending_requests[m].type
     /\ sent'.type = "response"
          => /\ recvd' = NoFrame
             /\ sent'.to = sent'.by
             /\ pc[sent'.by] \in {"wait", "check"}
             /\ message_id[sent'.by] = sent'.id]_vars

\* C31 witness: a response has just been stored in one of two entries
C31_Witness ==
  /\ recvd.type = "response"
  /\ recvd.id \in DOMAIN pending_requests
  /\ pending_requests[recvd.id].got # NoBody
  /\ Cardinality(DOMAIN pending_requests) = 2
  /\ sent = NoMsg


\* ---- C33 ----
\* C33: when the handler of an open client connection forwards a request of a
\* known kind, whatever became of the executor since the ack, the step either
\* writes the work order to the connection then in the registration slot and
\* enters the wait loop, or writes the terminal forward-failure error for that
\* request to the client and goes on reading; the handler never ends there.
C33_ForwardSurvivesExecutorLoss ==
  [][\A c \in Conns :
       ( /\ pc[c] = "forward"
         /\ pc'[c] # "forward"
         /\ conn[c] = "open"
         /\ conn'[c] = "open"
         /\ ~(msg_type[c] = "cli_request" /\ request_type[c] = "other") )
       => \/ /\ IsWorkOrder(sent')
             /\ sent'.to = extension_ws
             /\ extension_ws # None
             /\ conn[extension_ws] = "open"
             /\ sent'.id = message_id[c]
             /\ pc'[c] = "wait"
          \/ /\ sent'.type = "error"
             /\ sent'.to = c
             /\ sent'.id = message_id[c]
             /\ sent'.info = ForwardFailedType(c)
             /\ pc'[c] = "recv"]_vars

\* C33 witness: the forward failed on a slot emptied after the ack
C33_Witness ==
  /\ sent.type = "error"
  /\ sent.info = "injection_failed"
  /\ extension_ws = None
  /\ conn[sent.to] = "open"
  /\ pc[sent.to] = "recv"


\* ---- C32 ----
\* C32: frames of one connection are handled in arrival order: no frame is
\* read from a connection whose handler is between accepting a request and the
\* end of its wait loop, and the handler leaves the wait loop for the next
\* frame only once the terminal envelope of the request has been sent to the
\* client.
C32_NextFrameAfterTerminal ==
  [][\A c \in Conns :
       /\ recvd'.from = c => ~Handling(c)
       /\ ( /\ pc[c] \in {"wait", "check", "del"}
            /\ pc'[c] = "recv"
            /\ conn'[c] = "open" )
          => \/ nTerminal[c] >= 1
             \/ /\ IsTerminal(sent')
                /\ sent'.to = c
                /\ sent'.id = message_id[c]]_vars


\* ---- C34 ----
\* C34: a stored result is never discarded in favour of a timeout: the wait
\* loop of a cli_request sends its timeout error only when the entry of the
\* request holds no response of the executor.
C34_StoredResponseBeatsTimeout ==
  [][\A c \in Conns :
       ( /\ pc[c] = "wait"
         /\ msg_type[c] = "cli_request"
         /\ sent'.type = "error"
         /\ sent'.by = c
         /\ sent'.info = TimeoutType(c)
         /\ message_id[c] \in DOMAIN pending_requests )
       => ~Ready(pending_requests[message_id[c]])]_vars


\* ---- C35 ----
\* C35: a handler whose cli_request wait loop finds the entry of its request
\* gone from pending_requests leaves the loop for the next frame, writes no
\* envelope in doing so and leaves the table as it is.
C35_VanishedEntrySilent ==
  [][\A c \in Conns :
       ( /\ pc[c] = "wait"
         /\ msg_type[c] = "cli_request"
         /\ message_id[c] \notin DOMAIN pending_requests
         /\ pc'[c] # "wait" )
       => /\ pc'[c] = "recv"
          /\ sent' = NoMsg
          /\ pending_requests' = pending_requests]_vars

\* C35 witness: a wait loop has just ended on a vanished entry
C35_Witness ==
  /\ vanished # None
  /\ pc[vanished] = "recv"
  /\ conn[vanished] = "open"
  /\ message_id[vanished] = None
  /\ sent = NoMsg
  /\ recvd = NoFrame


\* ---- C36 ----
\* C36: a cli_request of an unknown request_type is answered with a terminal
\* error on the client's connection; the handler forwards nothing, enters no
\* wait loop, and no entry of that messageId is in pending_requests afterwards.
C36_UnknownKindLeavesNothing ==
  [][\A c \in Conns :
       ( /\ pc[c] = "forward"
         /\ msg_type[c] = "cli_request"
         /\ request_type[c] = "other"
         /\ conn[c] = "open"
         /\ pc'[c] # "forward" )
       => /\ sent'.type = "error"
          /\ sent'.to = c
          /\ sent'.id = message_id[c]
          /\ pc'[c] = "recv"
          /\ message_id[c] \notin DOMAIN pending_requests']_vars

\* ---- C37 ----
\* C37: the wait loop of a direct focus_tab envelope relays a result the
\* executor has stored: when the loop is left with the result in the entry, the
\* envelope written is the terminal response for that messageId on the client's
\* connection, not the focus_timeout error, and the entry is removed.
C37_DirectFocusRelayed ==
  [][\A c \in Conns :
       ( /\ pc[c] = "wait"
         /\ msg_type[c] = "focus_tab"
         /\ conn[c] = "open"
         /\ pc'[c] # "wait"
         /\ message_id[c] \in DOMAIN pending_requests
         /\ Ready(pending_requests[message_id[c]]) )
       => /\ sent'.type = "response"
          /\ sent'.to = c
          /\ sent'.id = message_id[c]
          /\ message_id[c] \notin DOMAIN pending_requests']_vars


\* ---- C39 ----
\* C39: categorize_error applied to the default message of an exception class,
\* or to the relay's error text for a missing executor, returns the error_type
\* that class (that envelope) carries.
C39_DefaultsRoundTrip ==
  (eh.pc = "failed" /\ eh.attempt_count = 0)
  => /\ \A e \in ErrorClasses :
          eh.message = KeywordsIn(default_message[e])
            => eh.error_type = declared_error_type[e]
     /\ eh.message = KeywordsIn(no_extension_error.error)
          => eh.error_type = no_extension_error.error_type


\* ---- C38 ----
\* C38: the line a send_prompt call returns was produced by the subprocess
\* after that call wrote its prompt, and no line is returned by two calls.
C38_FreshResponseOnce ==
  /\ ses.result # NoLine => ses.result.after = ses.stdin
  /\ \A i, j \in 1..Len(ses.returned) : ses.returned[i] = ses.returned[j] => i = j

====
